---- MODULE Spec2Model ----
(***************************************************************************)
(* Release Note Compiler of Adamant-im/.github: the release-notes script   *)
(* (variant with PREFIX_MAP / classifyTitle / normalizeTitleForNotes /     *)
(* nextVersion, src/unnamed/part_005 lines 1-278) and the title            *)
(* normalizers of two sibling variants (src/unnamed/part_002) and the      *)
(* section grouping of an earlier one (src/unnamed/part_001).              *)
(*                                                                         *)
(* A title is a sequence of tokens.  A token is one character (" ", ":",   *)
(* "-", "[", "]", ",", the emoji "E") or one maximal run of letters (a     *)
(* word).  The regular expressions of the source are evaluated on these    *)
(* sequences as JavaScript evaluates them on the characters.               *)
(***************************************************************************)
EXTENDS Integers, Sequences, FiniteSets, TLC

\* Longest title, in tokens, that SpecTitle draws.
MaxLen == 4
\* Runs of the script in one behaviour of Spec.
MaxRuns == 2
\* API calls that fail in one behaviour.
MaxFailures == 1
\* Comma-separated tags in one bracketed tag list.
MaxTags == 2
\* Dot-separated numbers in one tag.
MaxNums == 4
\* Full pages of closed pull requests on the platform.
MaxPages == 2

(***************************************************************************)
(* Characters and words                                                    *)
(***************************************************************************)
\* Each word in its lower-case form and with its first letter upper-case.
CaseForms ==
    { <<"task", "Task">>, <<"composite", "Composite">>, <<"bug", "Bug">>,
      <<"fix", "Fix">>, <<"refactor", "Refactor">>, <<"docs", "Docs">>,
      <<"test", "Test">>, <<"chore", "Chore">>, <<"proposal", "Proposal">>,
      <<"idea", "Idea">>, <<"discussion", "Discussion">>, <<"feat", "Feat">>,
      <<"enhancement", "Enhancement">>, <<"ux/ui", "Ux/ui">>,
      <<"constructor", "Constructor">>, <<"__proto__", "__proto__">>,
      <<"x", "X">> }

LowerWords == { f[1] : f \in CaseForms }
CapWords == { f[2] : f \in CaseForms }
AllWords == LowerWords \cup CapWords

SpaceCls == {" "}
\* [\p{Emoji_Presentation}\p{Extended_Pictographic}]
EmojiCls == {"E"}
\* [a-zA-Z0-9_+-]: the words made of these characters, and the dash.
CodeCls == (AllWords \ {"ux/ui", "Ux/ui"}) \cup {"-"}
\* [:\s-]
DelimCls == {":", " ", "-"}

\* Mutant: the letter case is kept.
LowerKeepsCase(c) == c

\* String.prototype.toLowerCase on one token.
Lower(c) == IF c \in CapWords
            THEN (CHOOSE f \in CaseForms : f[2] = c)[1]
            ELSE IF c \in {"Ux/Ui", "ux/Ui"} THEN "ux/ui"
            ELSE c

\* charAt(0).toUpperCase() + slice(1) on one token.
UpperFirst(c) == IF c \in LowerWords
                 THEN (CHOOSE f \in CaseForms : f[1] = c)[2]
                 ELSE c

LowerSeq(s) == [i \in 1..Len(s) |-> Lower(s[i])]

(***************************************************************************)
(* Sequence helpers (String.prototype.slice / trim / split)                *)
(***************************************************************************)
Drop(s, n) == SubSeq(s, n + 1, Len(s))

\* Length of the longest prefix of s whose tokens are all in cls (a greedy X+ / X*).
LeadLen(s, cls) ==
    IF \E i \in 1..Len(s) : s[i] \notin cls
    THEN (CHOOSE i \in 1..Len(s) :
              s[i] \notin cls /\ \A j \in 1..(i - 1) : s[j] \in cls) - 1
    ELSE Len(s)

TrailLen(s, cls) ==
    IF \E i \in 1..Len(s) : s[i] \notin cls
    THEN Len(s) - (CHOOSE i \in 1..Len(s) :
              s[i] \notin cls /\ \A j \in (i + 1)..Len(s) : s[j] \in cls)
    ELSE Len(s)

TrimStart(s) == Drop(s, LeadLen(s, SpaceCls))
TrimEnd(s) == SubSeq(s, 1, Len(s) - TrailLen(s, SpaceCls))
Trim(s) == TrimEnd(TrimStart(s))

\* Mutant: the string is not split.
UntilTokWhole(s, c) == s

\* s.split(c)[0]
UntilTok(s, c) ==
    IF \E i \in 1..Len(s) : s[i] = c
    THEN SubSeq(s, 1, (CHOOSE i \in 1..Len(s) :
                           s[i] = c /\ \A j \in 1..(i - 1) : s[j] # c) - 1)
    ELSE s

(***************************************************************************)
(* The regular expressions of part_005                                     *)
(***************************************************************************)
\* Length matched by :[a-zA-Z0-9_+-]+: at the start of s, 0 when it does not match.
ShortcodeLen(s) ==
    IF Len(s) >= 3 /\ s[1] = ":"
    THEN LET n == LeadLen(Drop(s, 1), CodeCls)
         IN IF n >= 1 /\ n + 2 <= Len(s) /\ s[n + 2] = ":" THEN n + 2 ELSE 0
    ELSE 0

\* Length matched by (:[a-zA-Z0-9_+-]+:)+ at the start of s, 0 when it does not match.
RECURSIVE ShortcodesLen(_)
ShortcodesLen(s) ==
    LET k == ShortcodeLen(s)
    IN IF k = 0 THEN 0 ELSE k + ShortcodesLen(Drop(s, k))

\* Index of the closing bracket matched by /^\[([^\]]+)\]/, 0 when it does not match.
BracketEnd(t) ==
    IF Len(t) >= 3 /\ t[1] = "[" /\ \E i \in 1..Len(t) : t[i] = "]"
    THEN LET j == CHOOSE i \in 1..Len(t) :
                      t[i] = "]" /\ \A k \in 1..(i - 1) : t[k] # "]"
         IN IF j >= 3 THEN j ELSE 0
    ELSE 0

\* The alternation of the leading-word expression of classifyTitle and
\* normalizeTitleForNotes.
SimplePrefixes == {"bug", "fix", "feat", "enhancement", "refactor", "docs",
                   "test", "chore", "task", "composite", "ux/ui"}

\* Length matched by /^(bug|fix|...|ux\/ui)[:\s-]+/i, 0 when it does not match.
SimpleMatchLen(t) ==
    IF Len(t) >= 2 /\ Lower(t[1]) \in SimplePrefixes /\ t[2] \in DelimCls
    THEN 1 + LeadLen(Drop(t, 1), DelimCls)
    ELSE 0

(***************************************************************************)
(* Sections and the prefix table                                           *)
(***************************************************************************)
\* The keys of `sections` in main(), in the order of orderedSections.
orderedSections ==
    << "New features & Enhancements", "Bug Fixes", "Tasks", "Refactoring",
       "Documentation", "Tests", "Chores", "Ideas & Proposals", "Other" >>

SectionNames == { orderedSections[i] : i \in 1..Len(orderedSections) }

PREFIX_MAP ==
    [ p \in { "task", "composite", "bug", "fix", "refactor", "docs", "test",
              "chore", "proposal", "idea", "discussion", "feat", "enhancement",
              "ux/ui" } |->
        CASE p \in {"task", "composite"} -> "Tasks"
          [] p \in {"bug", "fix"} -> "Bug Fixes"
          [] p = "refactor" -> "Refactoring"
          [] p = "docs" -> "Documentation"
          [] p = "test" -> "Tests"
          [] p = "chore" -> "Chores"
          [] p \in {"proposal", "idea", "discussion"} -> "Ideas & Proposals"
          [] OTHER -> "New features & Enhancements" ]

Undefined == "undefined"

\* PREFIX_MAP[key] for a key given as tokens.  PREFIX_MAP is an object literal:
\* a key that is no own property is looked up on Object.prototype, where the
\* lower-case names "constructor" and "__proto__" are found.
PrefixMapGet(key) ==
    IF Len(key) = 1 /\ key[1] \in DOMAIN PREFIX_MAP THEN PREFIX_MAP[key[1]]
    ELSE IF key = <<"constructor">> THEN "function Object"
    ELSE IF key = <<"__proto__">> THEN "Object.prototype"
    ELSE Undefined

\* v || "Other"  (every value of the table and of Object.prototype is truthy)
OrOther(v) == IF v = Undefined THEN "Other" ELSE v

(***************************************************************************)
(* stripLeadingEmoji, classifyTitle, normalizeTitleForNotes (part_005)     *)
(***************************************************************************)
stripLeadingEmoji(title) ==
    LET t0 == Trim(title)
        k == ShortcodesLen(t0)
        t1 == IF k > 0 THEN TrimStart(Drop(t0, k)) ELSE t0
        t2 == Drop(t1, LeadLen(t1, SpaceCls \cup EmojiCls))
    IN Trim(t2)

classifyTitle(title) ==
    LET t == stripLeadingEmoji(title)
        j == BracketEnd(t)
    IN IF j > 0
       THEN OrOther(PrefixMapGet(LowerSeq(Trim(UntilTok(SubSeq(t, 2, j - 1), ",")))))
       ELSE IF SimpleMatchLen(t) > 0
       THEN OrOther(PrefixMapGet(<<Lower(t[1])>>))
       ELSE "Other"

normalizeTitleForNotes(title) ==
    LET t0 == Trim(title)
        e == LeadLen(t0, SpaceCls \cup EmojiCls)
        m == IF e > 0 THEN e ELSE ShortcodesLen(t0)
        t == IF m > 0 THEN TrimStart(Drop(t0, m)) ELSE t0
        j == BracketEnd(t)
        s == SimpleMatchLen(t)
    IN IF j > 0
       THEN <<"[">> \o Trim(UntilTok(SubSeq(t, 2, j - 1), ",")) \o <<"]", " ">>
                \o TrimStart(Drop(t, j))
       ELSE IF s > 0
       THEN <<"[", UpperFirst(Lower(t[1])), "]", " ">> \o Drop(t, s)
       ELSE t

(***************************************************************************)
(* normalizeTitlePrefixes of the variant part_002 lines 199-454            *)
(***************************************************************************)
\* s.split(",")
RECURSIVE SplitComma(_)
SplitComma(s) ==
    IF \E i \in 1..Len(s) : s[i] = ","
    THEN <<UntilTok(s, ",")>> \o SplitComma(Drop(s, Len(UntilTok(s, ",")) + 1))
    ELSE <<s>>

\* p.charAt(0).toUpperCase() + p.slice(1).toLowerCase()
CapitalizeRest(p) ==
    [i \in 1..Len(p) |-> IF i = 1 THEN UpperFirst(Lower(p[1])) ELSE Lower(p[i])]

\* parts.map(p => `[${...}]`).join(" ")
RECURSIVE BracketEach(_)
BracketEach(parts) ==
    IF Len(parts) = 0 THEN <<>>
    ELSE <<"[">> \o CapitalizeRest(Trim(parts[1])) \o <<"]">>
         \o (IF Len(parts) > 1 THEN <<" ">> \o BracketEach(Tail(parts)) ELSE <<>>)

\* title.replace(/^\s*(?:\[([^\]]+)\]|([^\s:]+))\s*:?\s*/i, callback)
normalizeTitlePrefixes2(title) ==
    LET ws == LeadLen(title, SpaceCls)
        r == Drop(title, ws)
        j == BracketEnd(r)
        n == IF Len(r) > 0 /\ r[1] \notin {" ", ":"}
             THEN (IF \E i \in 1..Len(r) : r[i] \in {" ", ":"}
                   THEN (CHOOSE i \in 1..Len(r) :
                            r[i] \in {" ", ":"}
                            /\ \A k \in 1..(i - 1) : r[k] \notin {" ", ":"}) - 1
                   ELSE Len(r))
             ELSE 0
        a == IF j > 0 THEN j ELSE n
        prefixText == IF j > 0 THEN SubSeq(r, 2, j - 1) ELSE SubSeq(r, 1, n)
        r1 == TrimStart(Drop(r, a))
        r2 == IF Len(r1) > 0 /\ r1[1] = ":" THEN Drop(r1, 1) ELSE r1
        rest == TrimStart(r2)
    IN IF a = 0 THEN title
       ELSE BracketEach(SplitComma(prefixText)) \o <<" ">> \o rest

(***************************************************************************)
(* capitalizePrefix, extractAndNormalizePrefixes, normalizeTitlePrefixes   *)
(* of the variant part_002 lines 456-731                                   *)
(***************************************************************************)
\* prefix.toLowerCase().split("/").map(capitalize).join("/")
capitalizePrefix(p) ==
    [i \in 1..Len(p) |->
        IF Lower(p[i]) = "ux/ui" THEN (IF i = 1 THEN "Ux/Ui" ELSE "ux/Ui")
        ELSE IF i = 1 THEN UpperFirst(Lower(p[1]))
        ELSE Lower(p[i])]

\* The inner texts of title.matchAll(/\[([^\]]+)\]/g), left to right.
RECURSIVE BracketMatches(_)
BracketMatches(s) ==
    IF Len(s) = 0 THEN <<>>
    ELSE LET j == BracketEnd(s)
         IN IF j > 0 THEN <<SubSeq(s, 2, j - 1)>> \o BracketMatches(Drop(s, j))
            ELSE BracketMatches(Tail(s))

\* m[1].split(',').map(p => p.trim()).filter(Boolean).map(capitalizePrefix), flattened
RECURSIVE CapParts(_)
CapParts(parts) ==
    IF Len(parts) = 0 THEN <<>>
    ELSE (IF Len(Trim(parts[1])) > 0 THEN <<capitalizePrefix(Trim(parts[1]))>> ELSE <<>>)
         \o CapParts(Tail(parts))

RECURSIVE Combined(_)
Combined(matches) ==
    IF Len(matches) = 0 THEN <<>>
    ELSE CapParts(SplitComma(matches[1])) \o Combined(Tail(matches))

\* combined.join(', ')
RECURSIVE JoinComma(_)
JoinComma(parts) ==
    IF Len(parts) = 0 THEN <<>>
    ELSE parts[1] \o (IF Len(parts) > 1 THEN <<",", " ">> \o JoinComma(Tail(parts)) ELSE <<>>)

\* Length matched by /^(\s*\[[^\]]+\]\s*)+/ at the start of s, 0 when it does not match.
RECURSIVE LeadBracketsLen(_)
LeadBracketsLen(s) ==
    LET ws == LeadLen(s, SpaceCls)
        j == BracketEnd(Drop(s, ws))
        k == ws + j + LeadLen(Drop(s, ws + j), SpaceCls)
    IN IF j = 0 THEN 0 ELSE k + LeadBracketsLen(Drop(s, k))

\* The alternation of the leading-word expression of extractAndNormalizePrefixes.
SinglePrefixes == {"bug", "feat", "enhancement", "refactor", "docs", "test", "chore",
                   "task", "composite", "ux/ui", "proposal", "idea", "discussion"}

\* Length matched by /^([^\w]*)(bug|...|discussion)[:\-\s]/i, 0 when it does not match.
SingleMatchLen(s) ==
    LET nw == LeadLen(s, {" ", ":", "-", "[", "]", ",", "E"})
    IN IF nw + 2 <= Len(s) /\ Lower(s[nw + 1]) \in SinglePrefixes
          /\ s[nw + 2] \in DelimCls
       THEN nw + 2
       ELSE 0

extractAndNormalizePrefixes(title) ==
    LET matches == BracketMatches(title)
        sm == SingleMatchLen(title)
    IN IF Len(matches) > 0
       THEN [prefix |-> <<"[">> \o JoinComma(Combined(matches)) \o <<"]">>,
             cleanTitle |-> Trim(Drop(title, LeadBracketsLen(title)))]
       ELSE IF sm > 0
       THEN [prefix |-> <<"[">> \o capitalizePrefix(<<title[sm - 1]>>) \o <<"]">>,
             cleanTitle |-> Trim(Drop(title, sm))]
       ELSE [prefix |-> <<>>, cleanTitle |-> title]

normalizeTitlePrefixes3(title) ==
    LET e == extractAndNormalizePrefixes(title)
    IN IF Len(e.prefix) > 0 THEN e.prefix \o <<" ">> \o e.cleanTitle ELSE e.cleanTitle

(***************************************************************************)
(* SECTIONS, PREFIX_ALIASES, stripPrefix, getSectionFromPRTitle and the     *)
(* grouping of main() of the variant src/unnamed/part_001                   *)
(***************************************************************************)
\* The section names are written with "E" for their leading emoji.
SECTIONS ==
    << <<"E Tasks", <<"Task", "Composite">> >>,
       <<"E New Features", <<"Feat">> >>,
       <<"E Enhancements", <<"Enhancement", "UX/UI">> >>,
       <<"E Bug Fixes", <<"Bug">> >>,
       <<"E Refactoring", <<"Refactor">> >>,
       <<"E Documentation", <<"Docs">> >>,
       <<"E Tests", <<"Test">> >>,
       <<"E Chores", <<"Chore">> >>,
       <<"E Other", <<"Other">> >> >>

\* Object.keys(SECTIONS)
SectionKeys == { SECTIONS[i][1] : i \in 1..Len(SECTIONS) }

\* toLowerCase on the words of this variant.
LowerWord(c) ==
    IF c = "Other" THEN "other"
    ELSE IF c = "UX/UI" THEN "ux/ui"
    ELSE Lower(c)

\* The six keys PREFIX_ALIASES receives for prefix p.
AliasKeys(p) ==
    { <<p>>, <<LowerWord(p)>>, <<p, ":">>, <<LowerWord(p), ":">>,
      <<"[", p, "]">>, <<"[", LowerWord(p), "]">> }

\* PREFIX_ALIASES[key] for a key given as tokens.  PREFIX_ALIASES starts as {}:
\* a key that is no own property is looked up on Object.prototype.
PREFIX_ALIASES(key) ==
    IF \E i \in 1..Len(SECTIONS) : \E k \in 1..Len(SECTIONS[i][2]) :
           key \in AliasKeys(SECTIONS[i][2][k])
    THEN SECTIONS[CHOOSE i \in 1..Len(SECTIONS) :
                      \E k \in 1..Len(SECTIONS[i][2]) :
                          key \in AliasKeys(SECTIONS[i][2][k])][1]
    ELSE IF key = <<"constructor">> THEN "function Object"
    ELSE IF key = <<"__proto__">> THEN "Object.prototype"
    ELSE Undefined

\* The words made of the characters of [a-z/] (case-insensitive).
LetterWords == (AllWords \cup {"other", "Other", "UX/UI"}) \ {"__proto__"}

\* title.replace(/^\[[^\]]+\]\s*/, "").replace(/^[a-z/]+:\s*/i, "").trim()
stripPrefix(title) ==
    LET j == BracketEnd(title)
        t1 == IF j > 0 THEN Drop(title, j + LeadLen(Drop(title, j), SpaceCls)) ELSE title
        n == LeadLen(t1, LetterWords)
        t2 == IF n >= 1 /\ Len(t1) > n /\ t1[n + 1] = ":"
              THEN Drop(t1, n + 1 + LeadLen(Drop(t1, n + 1), SpaceCls))
              ELSE t1
    IN Trim(t2)

\* /^\[([^\]]+)\]/ then /^([a-z/]+):?/i, each looked up lower-cased.  A run of
\* several words is one longer word, which is no key.
getSectionFromPRTitle(title) ==
    IF title = <<>> THEN "E Other"
    ELSE LET j == BracketEnd(title)
             bkey == <<"[">> \o [i \in 1..(j - 2) |-> LowerWord(title[i + 1])] \o <<"]">>
             n == LeadLen(title, LetterWords)
         IN IF j > 0 /\ PREFIX_ALIASES(bkey) # Undefined THEN PREFIX_ALIASES(bkey)
            ELSE IF n = 1 /\ PREFIX_ALIASES(<<LowerWord(title[1])>>) # Undefined
            THEN PREFIX_ALIASES(<<LowerWord(title[1])>>)
            ELSE "E Other"

\* The keys of sectionGroups:
\* Object.values(SECTIONS).forEach(sec => sectionGroups[sec[0]] = []), then "E Other".
sectionGroupsKeys == { SECTIONS[i][2][1] : i \in 1..Len(SECTIONS) } \cup {"E Other"}

\* orderedSections of this variant.
orderedSections1 ==
    << "E Tasks", "E New Features", "E Enhancements", "E Bug Fixes", "E Refactoring",
       "E Documentation", "E Tests", "E Chores", "E Other" >>

(***************************************************************************)
(* State                                                                   *)
(***************************************************************************)
\* One title and the results of the title functions on it (SpecTitle).
VARIABLES title, tpc, section, by, normalized, renormalized

\* The hosting platform: the release list in API order (newest first), its
\* clock, the closed pull requests in API order, the issues each pull request
\* closes, the issue titles, the branch list and the commits of dev after the
\* last release.
VARIABLES releases, clock, pulls, links, issueTitle, hasDev, devAhead, env

\* One run of main(): its position and its local variables.
VARIABLES pc, exited, lastRelease, since, newTag, targetBranch, page, all,
          mergedPRs, li, issueMap, prsWithoutIssue, sections, notes, draftRelease

\* What the runs did: runs started, API calls failed, the answer of each
\* linked-issue query of this run, the release mutation of this run and of the
\* run before it, the release list when this run started, and whether the
\* platform was touched between the two runs.
VARIABLES runs, failures, got, mutation, prevMutation, prevRun, startReleases, changed, quiet

tvars == <<title, tpc, section, by, normalized, renormalized>>
pvars == <<releases, clock, pulls, links, issueTitle, hasDev, devAhead, env>>
lvars == <<pc, exited, lastRelease, since, newTag, targetBranch, page, all,
           mergedPRs, li, issueMap, prsWithoutIssue, sections, notes, draftRelease>>
hvars == <<runs, failures, got, mutation, prevMutation, prevRun, startReleases, changed,
          quiet>>
vars == <<tvars, pvars, lvars, hvars>>

None == "none"

(***************************************************************************)
(* Versions                                                                *)
(***************************************************************************)
\* A tag is its text before the first number, the dot-separated numbers that
\* follow, each the sequence of its decimal digits, and the text after them:
\* "v1.2.30-rc" is <<"v">>, <<<<1>>, <<2>>, <<3, 0>>>>, <<"-rc">>.
MkTag(pre, nums, suf) == [prefix |-> pre, nums |-> nums, suffix |-> suf]

\* null, undefined and the empty string
NoTag == MkTag(<<>>, <<>>, <<>>)

\* A JavaScript number that is a non-negative integer below 2^54 is kept as
\* <<hi, lo>>, its value being hi * Base + lo.
Base == 2^27

\* 2^53 = SafeHi * Base: up to it every integer is a double.
SafeHi == 2^26

Inc(v) == IF v[2] + 1 = Base THEN <<v[1] + 1, 0>> ELSE <<v[1], v[2] + 1>>

\* The double nearest to the integer v (ties to even): between 2^53 and 2^54
\* the doubles are the even integers.
RoundDouble(v) ==
    IF v[1] < SafeHi \/ v = <<SafeHi, 0>> \/ v[2] % 2 = 0 THEN v
    ELSE IF v[2] % 4 = 1 THEN <<v[1], v[2] - 1>>
    ELSE Inc(v)

\* The integer that the digits write.
RECURSIVE ParseDigits(_)
ParseDigits(ds) ==
    IF Len(ds) = 0 THEN <<0, 0>>
    ELSE LET v == ParseDigits(SubSeq(ds, 1, Len(ds) - 1))
             x == v[2] * 10 + ds[Len(ds)]
         IN <<v[1] * 10 + x \div Base, x % Base>>

\* Number(text) on a string of digits.
Number(ds) == RoundDouble(ParseDigits(ds))

\* `${n}`: the decimal digits of the integer n.
RECURSIVE FormatNumber(_)
FormatNumber(v) ==
    IF v[1] = 0 /\ v[2] < 10 THEN <<v[2]>>
    ELSE LET x == (v[1] % 10) * Base + v[2]
         IN FormatNumber(<<v[1] \div 10, x \div 10>>) \o <<x % 10>>

\* patch += 1 on Number(text), written back as text.
PatchPlusOne(ds) == FormatNumber(RoundDouble(Inc(Number(ds))))

V010 == MkTag(<<"v">>, << <<0>>, <<1>>, <<0>> >>, <<>>)

nextVersion(lastTag) ==
    IF lastTag = NoTag THEN V010
    ELSE IF lastTag.prefix = <<"v">> /\ Len(lastTag.nums) >= 3
    THEN MkTag(<<"v">>, << FormatNumber(Number(lastTag.nums[1])),
                          FormatNumber(Number(lastTag.nums[2])),
                          PatchPlusOne(lastTag.nums[3]) >>, <<>>)
    ELSE V010

(***************************************************************************)
(* The hosting API as the script uses it                                   *)
(***************************************************************************)
DEV_BRANCH == "dev"
MASTER_BRANCH == "master"

\* per_page of the three list calls, and first: of the linked-issue query
ReleasesPerPage == 20
DraftsPerPage == 10
perPage == 100
ClosingFirst == 10

FirstN(s, n) == SubSeq(s, 1, IF Len(s) < n THEN Len(s) ELSE n)

\* Mutant: the page number is ignored, every request returns the first page.
PageOfFirst(s, p, n) == SubSeq(s, 1, IF Len(s) < n THEN Len(s) ELSE n)

\* Page `p` (from 1) of list s, n items a page.
PageOf(s, p, n) ==
    SubSeq(s, (p - 1) * n + 1, IF Len(s) < p * n THEN Len(s) ELSE p * n)

Range(s) == { s[i] : i \in 1..Len(s) }

\* The elements of a set of numbers in ascending order.
RECURSIVE Ascending(_)
Ascending(S) ==
    IF S = {} THEN <<>>
    ELSE LET m == CHOOSE x \in S : \A y \in S : x <= y
         IN <<m>> \o Ascending(S \ {m})

\* Array.prototype.sort((a, b) => a.number - b.number): stable, ascending.
RECURSIVE InsertByNumber(_, _)
InsertByNumber(sorted, e) ==
    IF Len(sorted) = 0 THEN <<e>>
    ELSE IF e.number < sorted[1].number THEN <<e>> \o sorted
    ELSE <<sorted[1]>> \o InsertByNumber(Tail(sorted), e)

\* Mutant: the list is left in the order of arrival.
SortByNumberSkipped(items) == items

RECURSIVE SortByNumber(_)
SortByNumber(items) ==
    IF Len(items) = 0 THEN <<>>
    ELSE InsertByNumber(SortByNumber(SubSeq(items, 1, Len(items) - 1)), items[Len(items)])

(***************************************************************************)
(* main() of part_005, one action for each awaited call                    *)
(***************************************************************************)
\* data.filter(r => !r.draft)[0] || null
FindLastRelease(data) ==
    LET published == SelectSeq(data, LAMBDA r : ~r.draft)
    IN IF Len(published) > 0 THEN <<published[1]>> ELSE <<>>

\* releases.find(r => r.draft)
FindDraftRelease(data) ==
    LET drafts == SelectSeq(data, LAMBDA r : r.draft)
    IN IF Len(drafts) > 0 THEN <<drafts[1]>> ELSE <<>>

\* Mutant: a pull request merged at the cutoff itself is kept.
FilterMergedFromCutoff(prs, cutoff) ==
    SelectSeq(prs, LAMBDA pr : pr.merged_at # 0 /\ (cutoff = 0 \/ pr.merged_at >= cutoff))

\* prs.filter(pr => pr.merged_at && (!since || new Date(pr.merged_at) > since));
\* a null merged_at and a null since are 0.
FilterMerged(prs, cutoff) ==
    SelectSeq(prs, LAMBDA pr : pr.merged_at # 0 /\ (cutoff = 0 \/ pr.merged_at > cutoff))

\* The loop body of main() over one pull request: its linked issues go to
\* issueMap, a pull request without any goes to prsWithoutIssue.
AddToIssueMap(map, nodes, pr) ==
    [i \in DOMAIN map \cup Range(nodes) |->
        IF i \in Range(nodes)
        THEN [title |-> IF i \in DOMAIN map THEN map[i].title ELSE issueTitle[i],
              prs |-> (IF i \in DOMAIN map THEN map[i].prs ELSE <<>>)
                          \o <<[number |-> pr.number, user |-> pr.user]>>]
        ELSE map[i]]

\* The entry pushed for issue `num` of the map, with the section it is pushed to.
IssueEntry(map, num) ==
    LET t == normalizeTitleForNotes(map[num].title)
    IN [section |-> classifyTitle(t), kind |-> "issue", number |-> num, title |-> t,
        prs |-> SortByNumber(map[num].prs), user |-> None]

\* Mutant: the title is pushed as fetched, not normalized.
StandaloneEntryRawTitle(pr) ==
    [section |-> classifyTitle(pr.title), kind |-> "pr", number |-> pr.number,
     title |-> pr.title, prs |-> <<>>, user |-> pr.user]

\* The entry pushed for a pull request without linked issue.
StandaloneEntry(pr) ==
    LET t == normalizeTitleForNotes(pr.title)
    IN [section |-> classifyTitle(t), kind |-> "pr", number |-> pr.number, title |-> t,
        prs |-> <<>>, user |-> pr.user]

\* The pushes of the two loops of main(), in order: Object.entries(issueMap)
\* lists the issue numbers ascending, then prsWithoutIssue in its order.
Pushes(map, standalone) ==
    LET nums == Ascending(DOMAIN map)
    IN [i \in 1..Len(nums) |-> IssueEntry(map, nums[i])]
       \o [i \in 1..Len(standalone) |-> StandaloneEntry(standalone[i])]

\* sections[section].push(...) throws a TypeError when sections[section] is undefined.
PushThrows(pushes) == \E i \in 1..Len(pushes) : pushes[i].section \notin SectionNames

\* Mutant: the entries stay in the order of the pushes.
GroupSectionsUnsorted(pushes) ==
    [s \in SectionNames |-> SelectSeq(pushes, LAMBDA e : e.section = s)]

\* `sections` after the pushes and the items.sort(...) of the rendering loop.
GroupSections(pushes) ==
    [s \in SectionNames |-> SortByNumber(SelectSeq(pushes, LAMBDA e : e.section = s))]

\* releaseNotesText: one block for each non-empty section, in the order of
\* orderedSections.
RECURSIVE RenderFrom(_, _)
RenderFrom(secs, k) ==
    IF k > Len(orderedSections) THEN <<>>
    ELSE (IF Len(secs[orderedSections[k]]) = 0 THEN <<>>
          ELSE <<[heading |-> orderedSections[k], items |-> secs[orderedSections[k]]]>>)
         \o RenderFrom(secs, k + 1)

\* Mutant: every section gets its block, the empty ones too.
RenderNotesAll(secs) ==
    [k \in 1..Len(orderedSections) |->
        [heading |-> orderedSections[k], items |-> secs[orderedSections[k]]]]

RenderNotes(secs) == RenderFrom(secs, 1)

EmptySections == [s \in SectionNames |-> <<>>]

Abort ==
    /\ pc' = "aborted"
    /\ exited' = "1"

\* An API call fails.
Fails ==
    /\ failures < MaxFailures
    /\ failures' = failures + 1

\* The module top level: detectRepo() takes GITHUB_REPOSITORY, else the git
\* remote, else throws (uncaught: exit code 1); the clients are then built
\* from process.env.GITHUB_TOKEN, which is not examined, and main() is called.
Startup ==
    /\ pc = "start"
    /\ IF env.repository \/ env.remote
       THEN pc' = "listReleases" /\ exited' = "no"
       ELSE Abort
    /\ UNCHANGED <<lastRelease, since, newTag, targetBranch, page, all, mergedPRs,
                   li, issueMap, prsWithoutIssue, sections, notes, draftRelease>>
    /\ UNCHANGED <<tvars, pvars, hvars>>

\* Mutant: a failure of the release listing is not caught and ends the run.
ListReleasesUncaught ==
    /\ pc = "listReleases"
    /\ \/ /\ lastRelease' = FindLastRelease(FirstN(releases, ReleasesPerPage))
          /\ pc' = "listBranches"
          /\ UNCHANGED <<failures, exited>>
       \/ /\ Fails
          /\ Abort
          /\ lastRelease' = <<>>
    /\ since' = IF Len(lastRelease') > 0 THEN lastRelease'[1].created_at ELSE 0
    /\ newTag' = nextVersion(IF Len(lastRelease') > 0 THEN lastRelease'[1].tag_name ELSE NoTag)
    /\ UNCHANGED <<targetBranch, page, all, mergedPRs, li, issueMap,
                   prsWithoutIssue, sections, notes, draftRelease>>
    /\ UNCHANGED <<tvars, pvars, runs, got, mutation, prevMutation, prevRun,
                   startReleases, changed, quiet>>

\* octokit.repos.listReleases({per_page: 20}) in try/catch, then since, lastTag, newTag
ListReleases ==
    /\ pc = "listReleases"
    /\ \/ /\ lastRelease' = FindLastRelease(FirstN(releases, ReleasesPerPage))
          /\ UNCHANGED failures
       \/ /\ Fails
          /\ lastRelease' = <<>>
    /\ since' = IF Len(lastRelease') > 0 THEN lastRelease'[1].created_at ELSE 0
    /\ newTag' = nextVersion(IF Len(lastRelease') > 0 THEN lastRelease'[1].tag_name ELSE NoTag)
    /\ pc' = "listBranches"
    /\ UNCHANGED <<exited, targetBranch, page, all, mergedPRs, li, issueMap,
                   prsWithoutIssue, sections, notes, draftRelease>>
    /\ UNCHANGED <<tvars, pvars, runs, got, mutation, prevMutation, prevRun,
                   startReleases,
                   changed, quiet>>

\* octokit.repos.listBranches: not in a try, a failure ends the run.
ListBranches ==
    /\ pc = "listBranches"
    /\ \/ /\ pc' = IF hasDev /\ Len(lastRelease) > 0 THEN "compare" ELSE "pulls"
          /\ UNCHANGED <<failures, exited>>
       \/ /\ Fails
          /\ Abort
    /\ targetBranch' = MASTER_BRANCH
    /\ UNCHANGED <<lastRelease, since, newTag, page, all, mergedPRs, li, issueMap,
                   prsWithoutIssue, sections, notes, draftRelease>>
    /\ UNCHANGED <<tvars, pvars, runs, got, mutation, prevMutation, prevRun,
                   startReleases,
                   changed, quiet>>

\* Mutant: a comparison that succeeds selects dev whatever the commit count.
CompareCommitsAnyCount ==
    /\ pc = "compare"
    /\ \/ /\ targetBranch' = DEV_BRANCH
          /\ UNCHANGED failures
       \/ /\ Fails
          /\ UNCHANGED targetBranch
    /\ pc' = "pulls"
    /\ UNCHANGED <<exited, lastRelease, since, newTag, page, all, mergedPRs, li,
                   issueMap, prsWithoutIssue, sections, notes, draftRelease>>
    /\ UNCHANGED <<tvars, pvars, runs, got, mutation, prevMutation, prevRun,
                   startReleases, changed, quiet>>

\* octokit.repos.compareCommits(base: lastRelease.tag_name, head: dev) in try/catch
CompareCommits ==
    /\ pc = "compare"
    /\ \/ /\ targetBranch' = IF devAhead > 0 THEN DEV_BRANCH ELSE MASTER_BRANCH
          /\ UNCHANGED failures
       \/ /\ Fails
          /\ UNCHANGED targetBranch
    /\ pc' = "pulls"
    /\ UNCHANGED <<exited, lastRelease, since, newTag, page, all, mergedPRs, li,
                   issueMap, prsWithoutIssue, sections, notes, draftRelease>>
    /\ UNCHANGED <<tvars, pvars, runs, got, mutation, prevMutation, prevRun,
                   startReleases,
                   changed, quiet>>

\* One turn of the loop of getAllPRs; after the last one, the mergedPRs filter.
FetchPage ==
    /\ pc = "pulls"
    /\ \/ LET list == SelectSeq(pulls, LAMBDA pr : pr.base = targetBranch)
              data == PageOf(list, page, perPage)
              more == Len(data) = perPage
              merged == FilterMerged(all \o data, since)
          IN /\ all' = all \o data
             /\ page' = IF more THEN page + 1 ELSE page
             /\ mergedPRs' = IF more THEN mergedPRs ELSE merged
             /\ pc' = IF more THEN "pulls"
                      ELSE IF Len(merged) > 0 THEN "link" ELSE "group"
             /\ UNCHANGED <<failures, exited>>
       \/ /\ Fails
          /\ Abort
          /\ UNCHANGED <<all, page, mergedPRs>>
    /\ UNCHANGED <<lastRelease, since, newTag, targetBranch, li, issueMap,
                   prsWithoutIssue, sections, notes, draftRelease>>
    /\ UNCHANGED <<tvars, pvars, runs, got, mutation, prevMutation, prevRun,
                   startReleases,
                   changed, quiet>>

\* Mutant: a failure of the linked-issue query is not caught and ends the run.
LinkIssuesUncaught ==
    /\ pc = "link"
    /\ LET pr == mergedPRs[li]
           nodes == FirstN(Ascending(links[pr.number]), ClosingFirst)
       IN \/ /\ UNCHANGED <<failures, exited>>
             /\ issueMap' = IF Len(nodes) > 0 THEN AddToIssueMap(issueMap, nodes, pr)
                            ELSE issueMap
             /\ prsWithoutIssue' = IF Len(nodes) > 0 THEN prsWithoutIssue
                                   ELSE Append(prsWithoutIssue, pr)
             /\ got' = [n \in DOMAIN got \cup {pr.number} |->
                           IF n = pr.number THEN Range(nodes) ELSE got[n]]
             /\ li' = li + 1
             /\ pc' = IF li = Len(mergedPRs) THEN "group" ELSE "link"
          \/ /\ Fails
             /\ Abort
             /\ UNCHANGED <<issueMap, prsWithoutIssue, got, li>>
    /\ UNCHANGED <<lastRelease, since, newTag, targetBranch, page, all,
                   mergedPRs, sections, notes, draftRelease>>
    /\ UNCHANGED <<tvars, pvars, runs, mutation, prevMutation, prevRun,
                   startReleases, changed, quiet>>

\* getLinkedIssues(pr.number) for the next merged pull request (the query
\* catches its own failure and returns []), and the body of the loop over it.
LinkIssues ==
    /\ pc = "link"
    /\ LET pr == mergedPRs[li]
       IN \E nodes \in {FirstN(Ascending(links[pr.number]), ClosingFirst), <<>>} :
            /\ \/ /\ nodes = FirstN(Ascending(links[pr.number]), ClosingFirst)
                  /\ UNCHANGED failures
               \/ /\ nodes = <<>>
                  /\ Fails
            /\ issueMap' = IF Len(nodes) > 0 THEN AddToIssueMap(issueMap, nodes, pr)
                           ELSE issueMap
            /\ prsWithoutIssue' = IF Len(nodes) > 0 THEN prsWithoutIssue
                                  ELSE Append(prsWithoutIssue, pr)
            /\ got' = [n \in DOMAIN got \cup {pr.number} |->
                          IF n = pr.number THEN Range(nodes) ELSE got[n]]
    /\ li' = li + 1
    /\ pc' = IF li = Len(mergedPRs) THEN "group" ELSE "link"
    /\ UNCHANGED <<exited, lastRelease, since, newTag, targetBranch, page, all,
                   mergedPRs, sections, notes, draftRelease>>
    /\ UNCHANGED <<tvars, pvars, runs, mutation, prevMutation, prevRun,
                   startReleases,
                   changed, quiet>>

\* The two grouping loops and the rendering loop of main(), up to console.log.
GroupAndRender ==
    /\ pc = "group"
    /\ LET pushes == Pushes(issueMap, prsWithoutIssue)
       IN IF PushThrows(pushes)
          THEN /\ Abort
               /\ UNCHANGED <<sections, notes>>
          ELSE /\ sections' = GroupSections(pushes)
               /\ notes' = RenderNotes(GroupSections(pushes))
               /\ pc' = "findDraft"
               /\ UNCHANGED exited
    /\ UNCHANGED <<lastRelease, since, newTag, targetBranch, page, all, mergedPRs,
                   li, issueMap, prsWithoutIssue, draftRelease>>
    /\ UNCHANGED <<tvars, pvars, hvars>>

\* Mutant: a failure of the draft lookup is not caught and ends the run.
FindDraftUncaught ==
    /\ pc = "findDraft"
    /\ \/ /\ draftRelease' = FindDraftRelease(FirstN(releases, DraftsPerPage))
          /\ pc' = "publish"
          /\ UNCHANGED <<failures, exited>>
       \/ /\ Fails
          /\ Abort
          /\ draftRelease' = <<>>
    /\ UNCHANGED <<lastRelease, since, newTag, targetBranch, page, all,
                   mergedPRs, li, issueMap, prsWithoutIssue, sections, notes>>
    /\ UNCHANGED <<tvars, pvars, runs, got, mutation, prevMutation, prevRun,
                   startReleases, changed, quiet>>

\* octokit.repos.listReleases({per_page: 10}) in try/catch, then find(r => r.draft)
FindDraft ==
    /\ pc = "findDraft"
    /\ \/ /\ draftRelease' = FindDraftRelease(FirstN(releases, DraftsPerPage))
          /\ UNCHANGED failures
       \/ /\ Fails
          /\ draftRelease' = <<>>
    /\ pc' = "publish"
    /\ UNCHANGED <<exited, lastRelease, since, newTag, targetBranch, page, all,
                   mergedPRs, li, issueMap, prsWithoutIssue, sections, notes>>
    /\ UNCHANGED <<tvars, pvars, runs, got, mutation, prevMutation, prevRun,
                   startReleases,
                   changed, quiet>>

\* Mutant: the draft is renamed after the version computed in this run.
UpdateReleaseNamedNew(rels, draft, text) ==
    [i \in 1..Len(rels) |->
        IF rels[i].id = draft.id
        THEN [rels[i] EXCEPT !.body = text, !.name = newTag]
        ELSE rels[i]]

\* The release list after updateRelease(release_id, body, name: `Release ${tag}`).
UpdateRelease(rels, draft, text) ==
    [i \in 1..Len(rels) |->
        IF rels[i].id = draft.id
        THEN [rels[i] EXCEPT !.body = text, !.name = draft.tag_name]
        ELSE rels[i]]

\* The release list after createRelease(tag_name, name: `Release ${tag}`, body, draft: true).
CreateRelease(rels, tag, text, now) ==
    <<[id |-> now, tag_name |-> tag, draft |-> TRUE, created_at |-> now,
       name |-> tag, body |-> text]>> \o rels

\* Mutant: the draft found is ignored and a release is created.
PublishToAlwaysCreates(rels, draft, tag, text, now) ==
    CreateRelease(rels, tag, text, now)

\* What main() does with the release list once the draft lookup is over.
PublishTo(rels, draft, tag, text, now) ==
    IF Len(draft) > 0 THEN UpdateRelease(rels, draft[1], text)
    ELSE CreateRelease(rels, tag, text, now)

\* The release mutation main() performs.
MutationOf(draft, now) ==
    IF Len(draft) > 0 THEN [kind |-> "update", id |-> draft[1].id]
    ELSE [kind |-> "create", id |-> now]

\* Mutant: the release is written although the call reports a failure.
PublishWritesOnFailure ==
    /\ pc = "publish"
    /\ \/ /\ releases' = PublishTo(releases, draftRelease, newTag, notes, clock)
          /\ mutation' = MutationOf(draftRelease, clock)
          /\ clock' = clock + 1
          /\ pc' = "done"
          /\ exited' = "0"
          /\ UNCHANGED failures
       \/ /\ Fails
          /\ Abort
          /\ releases' = PublishTo(releases, draftRelease, newTag, notes, clock)
          /\ clock' = clock + 1
          /\ UNCHANGED mutation
    /\ UNCHANGED <<lastRelease, since, newTag, targetBranch, page, all, mergedPRs,
                   li, issueMap, prsWithoutIssue, sections, notes, draftRelease>>
    /\ UNCHANGED <<tvars, pulls, links, issueTitle, hasDev, devAhead, env, runs, got,
                   prevMutation, prevRun, startReleases, changed, quiet>>

\* updateRelease or createRelease: not in a try, a failure ends the run.
Publish ==
    /\ pc = "publish"
    /\ \/ /\ releases' = PublishTo(releases, draftRelease, newTag, notes, clock)
          /\ mutation' = MutationOf(draftRelease, clock)
          /\ clock' = clock + 1
          /\ pc' = "done"
          /\ exited' = "0"
          /\ UNCHANGED failures
       \/ /\ Fails
          /\ Abort
          /\ UNCHANGED <<releases, clock, mutation>>
    /\ UNCHANGED <<lastRelease, since, newTag, targetBranch, page, all, mergedPRs,
                   li, issueMap, prsWithoutIssue, sections, notes, draftRelease>>
    /\ UNCHANGED <<tvars, pulls, links, issueTitle, hasDev, devAhead, env, runs, got,
                   prevMutation, prevRun, startReleases, changed, quiet>>

NoMutation == [kind |-> "none", id |-> 0]

\* What a run worked with and produced: its reference release, cutoff date,
\* new tag, target branch, merged pull requests and release body.
RunOutcome ==
    [lastRelease |-> lastRelease, since |-> since, newTag |-> newTag,
     targetBranch |-> targetBranch, mergedPRs |-> mergedPRs, notes |-> notes]

\* The workflow is triggered again: the script starts from scratch.
Rerun ==
    /\ pc \in {"done", "aborted"}
    /\ runs < MaxRuns
    /\ runs' = runs + 1
    /\ pc' = "listReleases"
    /\ exited' = "no"
    /\ lastRelease' = <<>>
    /\ since' = 0
    /\ newTag' = NoTag
    /\ targetBranch' = MASTER_BRANCH
    /\ page' = 1
    /\ all' = <<>>
    /\ mergedPRs' = <<>>
    /\ li' = 1
    /\ issueMap' = <<>>
    /\ prsWithoutIssue' = <<>>
    /\ sections' = EmptySections
    /\ notes' = <<>>
    /\ draftRelease' = <<>>
    /\ got' = <<>>
    /\ mutation' = NoMutation
    /\ prevMutation' = mutation
    /\ prevRun' = <<RunOutcome>>
    /\ startReleases' = releases
    /\ quiet' = ~changed
    /\ changed' = FALSE
    /\ UNCHANGED <<tvars, pvars, failures>>

\* Between two runs a maintainer publishes a draft release.
PublishDraft ==
    /\ pc \in {"done", "aborted"}
    /\ runs < MaxRuns
    /\ \E i \in 1..Len(releases) :
         /\ releases[i].draft
         /\ releases' = [releases EXCEPT ![i].draft = FALSE]
    /\ changed' = TRUE
    /\ UNCHANGED <<tvars, clock, pulls, links, issueTitle, hasDev, devAhead, env, lvars,
                   runs, failures, got, mutation, prevMutation, prevRun, startReleases,
                   quiet>>

RunNext ==
    \/ ListReleases
    \/ ListBranches
    \/ CompareCommits
    \/ FetchPage
    \/ LinkIssues
    \/ GroupAndRender
    \/ FindDraft
    \/ Publish

Next ==
    \/ RunNext
    \/ Rerun
    \/ PublishDraft

(***************************************************************************)
(* main() of the variant part_002 lines 199-454                            *)
(***************************************************************************)
\* per_page of the first listReleases call of this variant
LastPerPage == 1

\* The keys of `sections`, in the order Object.entries lists them.
orderedSections2 ==
    << "Tasks", "Enhancements", "Bug Fixes", "New Features", "Refactoring",
       "Documentation", "Tests", "Chores", "Ideas & Proposals", "Other" >>

SectionNames2 == { orderedSections2[i] : i \in 1..Len(orderedSections2) }

\* map[prefix] of classifyTitle: own properties, then those of Object.prototype.
MapGet2(key) ==
    IF Len(key) # 1 THEN Undefined
    ELSE CASE key[1] \in {"task", "composite"} -> "Tasks"
           [] key[1] \in {"ux/ui", "enhancement"} -> "Enhancements"
           [] key[1] = "bug" -> "Bug Fixes"
           [] key[1] = "feat" -> "New Features"
           [] key[1] = "refactor" -> "Refactoring"
           [] key[1] = "docs" -> "Documentation"
           [] key[1] = "test" -> "Tests"
           [] key[1] = "chore" -> "Chores"
           [] key[1] \in {"proposal", "idea", "discussion"} -> "Ideas & Proposals"
           [] key[1] = "constructor" -> "function Object"
           [] key[1] = "__proto__" -> "Object.prototype"
           [] OTHER -> Undefined

\* classifyTitle of this variant
classifyTitle2(t) ==
    LET cleaned == Drop(t, LeadLen(t, SpaceCls \cup EmojiCls))
        j == BracketEnd(cleaned)
        n == IF Len(cleaned) > 0 /\ cleaned[1] \notin {" ", ":"}
             THEN (IF \E i \in 1..Len(cleaned) : cleaned[i] \in {" ", ":"}
                   THEN (CHOOSE i \in 1..Len(cleaned) :
                            cleaned[i] \in {" ", ":"}
                            /\ \A k \in 1..(i - 1) : cleaned[k] \notin {" ", ":"}) - 1
                   ELSE Len(cleaned))
             ELSE 0
        prefixText == IF j > 0 THEN SubSeq(cleaned, 2, j - 1) ELSE SubSeq(cleaned, 1, n)
        rawPrefix == Trim(UntilTok(prefixText, ","))
    IN IF j = 0 /\ n = 0 THEN "Other"
       ELSE IF Len(rawPrefix) = 0 THEN "Other"
       ELSE OrOther(MapGet2(LowerSeq(rawPrefix)))

\* lastRelease = data[0] || null of listReleases({per_page: 1}) in try/catch,
\* then since, lastTag, newTag
ListReleases2 ==
    /\ pc = "listReleases"
    /\ \/ /\ lastRelease' = FirstN(releases, LastPerPage)
          /\ UNCHANGED failures
       \/ /\ Fails
          /\ lastRelease' = <<>>
    /\ since' = IF Len(lastRelease') > 0 THEN lastRelease'[1].created_at ELSE 0
    /\ newTag' = nextVersion(IF Len(lastRelease') > 0 THEN lastRelease'[1].tag_name ELSE NoTag)
    /\ pc' = "listBranches"
    /\ UNCHANGED <<exited, targetBranch, page, all, mergedPRs, li, issueMap,
                   prsWithoutIssue, sections, notes, draftRelease>>
    /\ UNCHANGED <<tvars, pvars, runs, got, mutation, prevMutation, prevRun,
                   startReleases, changed, quiet>>

\* The pushes of the two loops of this variant: the raw title is classified,
\* the entry shows the normalized title, the PR list holds numbers only and a
\* standalone entry names no author.
Pushes2(map, standalone) ==
    LET nums == Ascending(DOMAIN map)
    IN [i \in 1..Len(nums) |->
           [section |-> classifyTitle2(map[nums[i]].title), kind |-> "issue",
            number |-> nums[i], title |-> normalizeTitlePrefixes2(map[nums[i]].title),
            prs |-> SortByNumber([k \in 1..Len(map[nums[i]].prs) |->
                                     [number |-> map[nums[i]].prs[k].number,
                                      user |-> None]]),
            user |-> None]]
       \o [i \in 1..Len(standalone) |->
              [section |-> classifyTitle2(standalone[i].title), kind |-> "pr",
               number |-> standalone[i].number,
               title |-> normalizeTitlePrefixes2(standalone[i].title),
               prs |-> <<>>, user |-> None]]

\* releaseNotesText of this variant: Object.entries(sections), empty ones
\* skipped, each sorted by number.
RECURSIVE RenderFrom2(_, _)
RenderFrom2(pushes, k) ==
    IF k > Len(orderedSections2) THEN <<>>
    ELSE LET items == SortByNumber(SelectSeq(pushes,
                          LAMBDA e : e.section = orderedSections2[k]))
         IN (IF Len(items) = 0 THEN <<>>
             ELSE <<[heading |-> orderedSections2[k], items |-> items]>>)
            \o RenderFrom2(pushes, k + 1)

\* Steps 5 and 6 of main() of this variant.
GroupAndRender2 ==
    /\ pc = "group"
    /\ LET pushes == Pushes2(issueMap, prsWithoutIssue)
       IN IF \E i \in 1..Len(pushes) : pushes[i].section \notin SectionNames2
          THEN /\ Abort
               /\ UNCHANGED notes
          ELSE /\ notes' = RenderFrom2(pushes, 1)
               /\ pc' = "findDraft"
               /\ UNCHANGED exited
    /\ UNCHANGED <<lastRelease, since, newTag, targetBranch, page, all, mergedPRs,
                   li, issueMap, prsWithoutIssue, sections, draftRelease>>
    /\ UNCHANGED <<tvars, pvars, hvars>>

\* A step of main() of this variant; the steps between the first and the
\* grouping and those after it read as in part_005.
RunNext2 ==
    \/ ListReleases2
    \/ ListBranches
    \/ CompareCommits
    \/ FetchPage
    \/ LinkIssues
    \/ GroupAndRender2
    \/ FindDraft
    \/ Publish

Next2 ==
    \/ RunNext2
    \/ Rerun

(***************************************************************************)
(* Initial states                                                          *)
(***************************************************************************)
\* The titles of the issues and pull requests of Spec and SpecNotes.
BugTitle == <<"[", "bug", "]", " ", "x">>
ChoreTitle == <<"chore", ":", " ", "x">>
CtorTitle == <<"[", "constructor", "]", " ", "x">>
TitlePool == {BugTitle, ChoreTitle, CtorTitle}

Issues == {2, 5}
PRs == {3, 4}
Author(n) == IF n = 3 THEN "alice" ELSE "bob"

MkPR(n, t, m, b) ==
    [number |-> n, title |-> t, merged_at |-> m, base |-> b, user |-> Author(n)]

MkRelease(i, tag, d, at) ==
    [id |-> i, tag_name |-> tag, draft |-> d, created_at |-> at, name |-> tag,
     body |-> <<>>]

Published123 == MkRelease(2, MkTag(<<"v">>, << <<1>>, <<2>>, <<3>> >>, <<>>), FALSE, 2)
Published124 == MkRelease(1, MkTag(<<"v">>, << <<1>>, <<2>>, <<4>> >>, <<>>), FALSE, 1)
Draft124 == MkRelease(4, MkTag(<<"v">>, << <<1>>, <<2>>, <<4>> >>, <<>>), TRUE, 4)

\* No run has started: nothing of main() has run.
\* The process environment: GITHUB_TOKEN set, GITHUB_REPOSITORY set, and a git
\* remote from which the repository can be read.
Envs == [token : BOOLEAN, repository : BOOLEAN, remote : BOOLEAN]

FullEnv == [token |-> TRUE, repository |-> TRUE, remote |-> TRUE]

\* main() has not issued a call yet.
RunFresh ==
    /\ exited = "no"
    /\ lastRelease = <<>>
    /\ since = 0
    /\ newTag = NoTag
    /\ targetBranch = MASTER_BRANCH
    /\ page = 1
    /\ all = <<>>
    /\ mergedPRs = <<>>
    /\ li = 1
    /\ issueMap = <<>>
    /\ prsWithoutIssue = <<>>
    /\ sections = EmptySections
    /\ notes = <<>>
    /\ draftRelease = <<>>
    /\ runs = 1
    /\ failures = 0
    /\ got = <<>>
    /\ mutation = NoMutation
    /\ prevMutation = NoMutation
    /\ prevRun = <<>>
    /\ changed = FALSE
    /\ quiet = FALSE

\* The module top level has run with a complete environment.
RunStart ==
    /\ pc = "listReleases"
    /\ env = FullEnv
    /\ RunFresh

TitleOff ==
    /\ title = <<>>
    /\ tpc = "off"
    /\ section = None
    /\ by = None
    /\ normalized = <<>>
    /\ renormalized = <<>>

\* Spec: the release list, the branches and the links vary.
Init ==
    /\ TitleOff
    /\ RunStart
    /\ releases \in { <<>>, <<Published123>>, <<Draft124, Published123>>,
                      <<Draft124>>, <<Published123, Published124>> }
    /\ startReleases = releases
    /\ clock = 6
    /\ pulls = << MkPR(4, ChoreTitle, 3, DEV_BRANCH), MkPR(3, BugTitle, 3, MASTER_BRANCH) >>
    /\ links \in { [n \in PRs |-> {}], [n \in PRs |-> {2}] }
    /\ issueTitle = [i \in Issues |-> BugTitle]
    /\ hasDev \in BOOLEAN
    /\ devAhead \in {0, 1}
    /\ hasDev = FALSE => devAhead = 0

Spec == Init /\ [][Next]_vars

\* Spec2: the same platform states, the script being the variant of part_002.
Spec2 == Init /\ [][Next2]_vars

\* One run from the start of the process, under every environment.
InitConfig ==
    /\ TitleOff
    /\ RunFresh
    /\ pc = "start"
    /\ env \in Envs
    /\ releases \in { <<>>, <<Published123>>, <<Draft124, Published123>> }
    /\ startReleases = releases
    /\ clock = 6
    /\ pulls = << MkPR(4, ChoreTitle, 3, DEV_BRANCH), MkPR(3, BugTitle, 3, MASTER_BRANCH) >>
    /\ links \in { [n \in PRs |-> {}], [n \in PRs |-> {2}] }
    /\ issueTitle = [i \in Issues |-> BugTitle]
    /\ hasDev \in BOOLEAN
    /\ devAhead \in {0, 1}
    /\ hasDev = FALSE => devAhead = 0

NextConfig ==
    \/ Startup
    \/ RunNext

SpecConfig == InitConfig /\ [][NextConfig]_vars

\* getAllPRs called on master, for every number of closed pull requests up to
\* MaxPages full pages and one more, behind an optional pull request of dev.
MaxPulls == MaxPages * perPage + 1

InitPages ==
    /\ TitleOff
    /\ exited = "no"
    /\ pc = "pulls"
    /\ env = FullEnv
    /\ lastRelease = <<>>
    /\ since = 0
    /\ newTag = V010
    /\ targetBranch = MASTER_BRANCH
    /\ page = 1
    /\ all = <<>>
    /\ mergedPRs = <<>>
    /\ li = 1
    /\ issueMap = <<>>
    /\ prsWithoutIssue = <<>>
    /\ sections = EmptySections
    /\ notes = <<>>
    /\ draftRelease = <<>>
    /\ runs = 1
    /\ failures = 0
    /\ got = <<>>
    /\ mutation = NoMutation
    /\ prevMutation = NoMutation
    /\ prevRun = <<>>
    /\ changed = FALSE
    /\ quiet = FALSE
    /\ releases = <<>>
    /\ startReleases = releases
    /\ clock = 6
    /\ \E n \in 0..MaxPulls, d \in {0, 1} :
         pulls = [i \in 1..(n + d) |->
                    MkPR(i, ChoreTitle, IF i % 2 = 0 THEN 3 ELSE 0,
                         IF d = 1 /\ i = 1 THEN DEV_BRANCH ELSE MASTER_BRANCH)]
    /\ links = [n \in PRs |-> {}]
    /\ issueTitle = [i \in Issues |-> BugTitle]
    /\ hasDev = FALSE
    /\ devAhead = 0

\* The loop of getAllPRs awaits one call after the other: each call returns.
SpecPages == InitPages /\ [][FetchPage]_vars /\ WF_vars(FetchPage)

\* SpecNotes: one run; the titles, the links, the merge times and the order of
\* the pull requests vary.
InitNotes ==
    /\ TitleOff
    /\ RunStart
    /\ \E d \in BOOLEAN :
         /\ hasDev = d
         /\ releases = IF d THEN <<Draft124, Published123>> ELSE <<Published123>>
    /\ startReleases = releases
    /\ devAhead \in {0, 1}
    /\ hasDev = FALSE => devAhead = 0
    /\ clock = 6
    /\ \E t \in TitlePool, m \in {0, 1, 2, 3} :
         pulls \in { << MkPR(3, t, 3, MASTER_BRANCH), MkPR(4, ChoreTitle, m, MASTER_BRANCH) >>,
                     << MkPR(4, ChoreTitle, m, MASTER_BRANCH), MkPR(3, t, 3, MASTER_BRANCH) >> }
    /\ links \in [PRs -> SUBSET Issues]
    /\ \E t \in TitlePool : issueTitle = [i \in Issues |-> IF i = 2 THEN t ELSE ChoreTitle]

SpecNotes == InitNotes /\ [][RunNext]_vars

(***************************************************************************)
(* The title functions applied to one title                                *)
(***************************************************************************)

\* The tokens titles are drawn from.
Tok == {" ", ":", "-", "[", "]", ",", "E", "bug", "Bug", "idea", "constructor", "x"}

Titles == UNION { [1..n -> Tok] : n \in 0..MaxLen }

\* SpecTitle runs no script: the platform is empty and main() never starts.
RunOff ==
    /\ releases = <<>>
    /\ clock = 0
    /\ pulls = <<>>
    /\ links = <<>>
    /\ issueTitle = <<>>
    /\ hasDev = FALSE
    /\ devAhead = 0
    /\ env = FullEnv
    /\ pc = "off"
    /\ exited = "no"
    /\ lastRelease = <<>>
    /\ since = 0
    /\ newTag = NoTag
    /\ targetBranch = MASTER_BRANCH
    /\ page = 1
    /\ all = <<>>
    /\ mergedPRs = <<>>
    /\ li = 1
    /\ issueMap = <<>>
    /\ prsWithoutIssue = <<>>
    /\ sections = EmptySections
    /\ notes = <<>>
    /\ draftRelease = <<>>
    /\ runs = 0
    /\ failures = 0
    /\ got = <<>>
    /\ mutation = NoMutation
    /\ prevMutation = NoMutation
    /\ prevRun = <<>>
    /\ startReleases = <<>>
    /\ changed = FALSE
    /\ quiet = FALSE

TitleInit ==
    /\ RunOff
    /\ title \in Titles
    /\ tpc = "input"
    /\ section = None
    /\ by = None
    /\ normalized = <<>>
    /\ renormalized = <<>>

Classify ==
    /\ tpc = "input"
    /\ section' = classifyTitle(title)
    /\ tpc' = "classified"
    /\ UNCHANGED <<title, by, normalized, renormalized>>
    /\ UNCHANGED <<pvars, lvars, hvars>>

NormalizeForNotes ==
    /\ tpc = "classified"
    /\ normalized' = normalizeTitleForNotes(title)
    /\ by' = "normalizeTitleForNotes"
    /\ tpc' = "normalized"
    /\ UNCHANGED <<title, section, renormalized>>
    /\ UNCHANGED <<pvars, lvars, hvars>>

NormalizePrefixes2 ==
    /\ tpc = "classified"
    /\ normalized' = normalizeTitlePrefixes2(title)
    /\ by' = "normalizeTitlePrefixes2"
    /\ tpc' = "normalized"
    /\ UNCHANGED <<title, section, renormalized>>
    /\ UNCHANGED <<pvars, lvars, hvars>>

NormalizePrefixes3 ==
    /\ tpc = "classified"
    /\ normalized' = normalizeTitlePrefixes3(title)
    /\ by' = "normalizeTitlePrefixes3"
    /\ tpc' = "normalized"
    /\ UNCHANGED <<title, section, renormalized>>
    /\ UNCHANGED <<pvars, lvars, hvars>>

\* The normalizer applied to its own output.
Renormalize ==
    /\ tpc = "normalized"
    /\ renormalized' =
          CASE by = "normalizeTitleForNotes" -> normalizeTitleForNotes(normalized)
            [] by = "normalizeTitlePrefixes2" -> normalizeTitlePrefixes2(normalized)
            [] OTHER -> normalizeTitlePrefixes3(normalized)
    /\ tpc' = "renormalized"
    /\ UNCHANGED <<title, section, by, normalized>>
    /\ UNCHANGED <<pvars, lvars, hvars>>

TitleNext ==
    \/ Classify
    \/ NormalizeForNotes
    \/ NormalizePrefixes2
    \/ NormalizePrefixes3
    \/ Renormalize

SpecTitle == TitleInit /\ [][TitleNext]_vars

(***************************************************************************)
(* SpecGroups: the grouping of part_001 applied to one title                *)
(***************************************************************************)
GroupWords == AllWords \cup {"other", "Other", "UX/UI"}

\* Titles of every prefix form of every word, the empty title and titles
\* without prefix.
GroupTitles ==
    { <<>>, <<"x", " ", "x">>, <<"[", "]", "x">>, <<" ", "bug", ":", "x">> }
    \cup { <<"[", w, "]", " ", "x">> : w \in GroupWords }
    \cup { <<"[", " ", w, "]", "x">> : w \in GroupWords }
    \cup { <<w, ":", " ", "x">> : w \in GroupWords }
    \cup { <<w, " ", "x">> : w \in GroupWords }
    \cup { <<w>> : w \in GroupWords }
    \cup { <<w, "x", ":">> : w \in GroupWords }

GroupInit ==
    /\ RunOff
    /\ title \in GroupTitles
    /\ tpc = "input"
    /\ section = None
    /\ by = None
    /\ normalized = <<>>
    /\ renormalized = <<>>

\* One entry of the grouping loop and its rendering: the section of the
\* title, sectionGroups[section].push(line), which throws a TypeError when
\* sectionGroups[section] is undefined, then the loop over orderedSections.
GroupTitle ==
    /\ tpc = "input"
    /\ section' = getSectionFromPRTitle(title)
    /\ IF section' \in sectionGroupsKeys
       THEN /\ normalized' = stripPrefix(title)
            /\ tpc' = IF \E i \in 1..Len(orderedSections1) : orderedSections1[i] = section'
                      THEN "rendered" ELSE "grouped"
       ELSE /\ tpc' = "threw"
            /\ UNCHANGED normalized
    /\ UNCHANGED <<title, by, renormalized>>
    /\ UNCHANGED <<pvars, lvars, hvars>>

SpecGroups == GroupInit /\ [][GroupTitle]_vars

(***************************************************************************)
(* Claims about the title functions (checked under SpecTitle)              *)
(***************************************************************************)
\* C1: classifyTitle is total into the fixed section list: for every title,
\* whatever its bracketed or leading token is (the names of inherited object
\* properties included), the result is one of the keys of `sections`.
C1_ClassifyTotal ==
    tpc # "input" => section \in SectionNames

\* C7: title normalization is idempotent: normalizing the output of
\* normalizeTitleForNotes (part_005) or of normalizeTitlePrefixes (part_002,
\* extractAndNormalizePrefixes) again returns that output (compared up to
\* surrounding white space).
C7_NormalizeIdempotent ==
    (tpc = "renormalized" /\ by \in {"normalizeTitleForNotes", "normalizeTitlePrefixes3"})
        => Trim(renormalized) = Trim(normalized)

\* A title with no recognizable prefix: it starts with a word, ends with a
\* word, and has no bracket and no word of the prefix vocabulary anywhere.
NoRecognizablePrefix(t) ==
    /\ Len(t) > 0
    /\ t[1] \in AllWords
    /\ t[Len(t)] \in AllWords
    /\ \A i \in 1..Len(t) :
          t[i] \notin {"[", "]"} /\ Lower(t[i]) \notin DOMAIN PREFIX_MAP

\* C8: the normalizer (normalizeTitleForNotes of part_005, normalizeTitlePrefixes
\* of part_002 lines 307-318) returns a title that carries no recognizable
\* prefix unchanged.
C8_NoPrefixUnchanged ==
    (tpc = "normalized"
        /\ by \in {"normalizeTitleForNotes", "normalizeTitlePrefixes2"}
        /\ NoRecognizablePrefix(title))
        => normalized = title

\* The title is "[p]" followed by rest, p one word of the prefix table.
IsBracketForm(t) ==
    /\ Len(t) >= 3
    /\ t[1] = "["
    /\ Lower(t[2]) \in DOMAIN PREFIX_MAP
    /\ t[3] = "]"

\* The title is "p" followed by a colon, dash or space, p one word of the
\* leading-word expression.
IsDelimForm(t) ==
    /\ Len(t) >= 2
    /\ Lower(t[1]) \in SimplePrefixes
    /\ t[2] \in DelimCls

\* C9: normalizeTitleForNotes rewrites a title whose prefix is recognized, in
\* bracketed form or in colon/dash/space form, to "[Prefix] remainder", Prefix
\* being the prefix with its first letter upper-case and remainder the rest of
\* the title.  (Stated for titles without surrounding white space.)
C9_CanonicalForm ==
    (tpc = "normalized" /\ by = "normalizeTitleForNotes" /\ Trim(title) = title)
        => /\ IsBracketForm(title) =>
                normalized = <<"[", UpperFirst(title[2]), "]", " ">>
                                 \o TrimStart(Drop(title, 3))
           /\ IsDelimForm(title) =>
                normalized = <<"[", UpperFirst(title[1]), "]", " ">>
                                 \o Drop(title, 1 + LeadLen(Drop(title, 1), DelimCls))

\* The four spellings "[p] r", "p: r", "p - r", "p r" of prefix p before a
\* remainder r that starts with a word.
IsSpelling(t, p) ==
    \E r \in {Drop(t, 2), Drop(t, 3), Drop(t, 4)} :
        /\ Len(r) > 0
        /\ r[1] \in AllWords
        /\ t \in { <<"[", p, "]", " ">> \o r, <<p, ":", " ">> \o r,
                   <<p, " ", "-", " ">> \o r, <<p, " ">> \o r }

\* C10: for every prefix p of the prefix table and every remainder r, the titles
\* "[p] r", "p: r", "p - r" and "p r" are classified into the section the table
\* assigns to p.
C10_SpellingsAgree ==
    tpc # "input" =>
        \A p \in DOMAIN PREFIX_MAP : IsSpelling(title, p) => section = PREFIX_MAP[p]

(***************************************************************************)
(* SpecTags: classifyTitle over titles built from a prefix form            *)
(***************************************************************************)
\* The words a title may carry as its first tag or leading word.
TagWords == AllWords
\* The words that follow the first tag in a tag list.
LaterTags == {"bug", "Chore", "x"}
Pads == { <<>>, <<" ">> }
Decors == { <<>>, <<"E", " ">> }
Remainders == { <<>>, <<" ", "x">>, <<":", " ", "chore", ":", " ", "x">> }
WordDelims == { <<":">>, <<":", " ">>, <<" ">>, <<" ", "-", " ">>, <<"-">>, <<>> }

\* The bracket contents with n comma-separated tags.
RECURSIVE TagLists(_)
TagLists(n) ==
    IF n = 1
    THEN { p \o <<a>> \o q : p \in Pads, a \in TagWords, q \in Pads }
    ELSE { l \o <<",">> \o p \o <<b>> : l \in TagLists(n - 1), p \in Pads, b \in LaterTags }

BracketTitles ==
    { d \o <<"[">> \o l \o <<"]">> \o r :
        d \in Decors, l \in UNION { TagLists(n) : n \in 1..MaxTags }, r \in Remainders }

WordTitles ==
    { d \o <<a>> \o dl \o r :
        d \in Decors, a \in TagWords, dl \in WordDelims, r \in { <<>>, <<"x">> } }

TagInit ==
    /\ RunOff
    /\ title \in BracketTitles \cup WordTitles
    /\ tpc = "input"
    /\ section = None
    /\ by = None
    /\ normalized = <<>>
    /\ renormalized = <<>>

SpecTags == TagInit /\ [][Classify]_vars


(***************************************************************************)
(* SpecVersion: the first step of main() over release tags                 *)
(***************************************************************************)
\* 2^53 - 1, 2^53 and 2^53 + 1 in decimal digits.
Digits53m == <<9, 0, 0, 7, 1, 9, 9, 2, 5, 4, 7, 4, 0, 9, 9, 1>>
Digits53 == <<9, 0, 0, 7, 1, 9, 9, 2, 5, 4, 7, 4, 0, 9, 9, 2>>
Digits53p == <<9, 0, 0, 7, 1, 9, 9, 2, 5, 4, 7, 4, 0, 9, 9, 3>>

SampleDigits == { <<0>>, <<9>>, <<0, 9>>, Digits53m, Digits53, Digits53p }

SampleTags ==
    { MkTag(pre, nums, suf) :
        pre \in { <<"v">>, <<>>, <<"V">> },
        nums \in UNION { [1..n -> SampleDigits] : n \in 0..MaxNums },
        suf \in { <<>>, <<"-rc">> } }

InitVersion ==
    /\ TitleOff
    /\ RunStart
    /\ \E t \in SampleTags :
         releases \in { <<MkRelease(1, t, FALSE, 1)>>,
                        <<MkRelease(4, t, TRUE, 4), MkRelease(1, t, FALSE, 1)>> }
    /\ startReleases = releases
    /\ clock = 6
    /\ pulls = <<>>
    /\ links = [n \in PRs |-> {}]
    /\ issueTitle = [i \in Issues |-> BugTitle]
    /\ hasDev = FALSE
    /\ devAhead = 0

SpecVersion == InitVersion /\ [][ListReleases]_vars

(***************************************************************************)
(* Claims about the runs (checked under Spec and SpecNotes)                *)
(***************************************************************************)
IdsOf(rels) == { rels[i].id : i \in 1..Len(rels) }
DraftIds(rels) == { rels[i].id : i \in { k \in 1..Len(rels) : rels[k].draft } }

\* C2: whenever the draft lookup returned a draft release, a run that completes
\* has updated that release (same id) and created none, as the release list
\* shows when the run ends (before anyone else touches it); and when the run before
\* it completed with a release mutation and nothing touched the platform in
\* between, the release it updates is the one the run before created or
\* updated, the drafts of the platform are the same as before the run, and
\* when no API call of the two runs failed that release is the only draft.
C2_UpdatesFoundDraft ==
    (pc = "done" /\ ~changed /\ Len(draftRelease) > 0)
        => /\ mutation = [kind |-> "update", id |-> draftRelease[1].id]
           /\ IdsOf(releases) = IdsOf(startReleases)
           /\ DraftIds(releases) = DraftIds(startReleases)
           /\ draftRelease[1].id \in DraftIds(releases)
           /\ (quiet /\ prevMutation.kind # "none") => mutation.id = prevMutation.id
           /\ (quiet /\ prevMutation.kind # "none" /\ failures = 0)
                 => DraftIds(releases) = {mutation.id}

\* A second run, right after a run that created a draft, has updated that draft.
C2_Witness ==
    /\ pc = "done"
    /\ runs = 2
    /\ quiet
    /\ failures = 0
    /\ prevMutation.kind = "create"
    /\ mutation = [kind |-> "update", id |-> prevMutation.id]
    /\ Cardinality(DraftIds(releases)) = 1

\* C3: from a release list with at most one draft, after any number of runs,
\* whichever API calls fail, the release list holds at most one draft.
C3_AtMostOneDraft ==
    Cardinality(DraftIds(releases)) <= 1

\* The notes of this run have been rendered.
Rendered == pc \in {"findDraft", "publish", "done"}

\* The positions <<section, index>> of the entries of the sections.
EntryPositions == { <<s, k>> \in SectionNames \X (1..4) : k <= Len(sections[s]) }

EntryAt(pos) == sections[pos[1]][pos[2]]

\* The sections in which pull request n appears, as a standalone entry or in
\* the PR list of an issue entry.
SectionsOfPR(n) ==
    { s \in SectionNames :
        \E k \in 1..Len(sections[s]) :
            \/ sections[s][k].kind = "pr" /\ sections[s][k].number = n
            \/ /\ sections[s][k].kind = "issue"
               /\ \E j \in 1..Len(sections[s][k].prs) : sections[s][k].prs[j].number = n }

\* C4: every merged pull request selected for the release appears in exactly
\* one section of the rendered notes.
C4_OneSectionPerPR ==
    Rendered =>
        \A k \in 1..Len(mergedPRs) : Cardinality(SectionsOfPR(mergedPRs[k].number)) = 1

\* The pull requests whose linked-issue query returned issue i in this run.
LinkingPRs(i) == { n \in DOMAIN got : i \in got[n] }

\* C5: in the rendered notes an issue linked from merged pull requests has
\* exactly one entry, in the section its title (as the entry shows it)
\* classifies to, and the PR list of the entry is the linking pull request
\* numbers in ascending order; an issue no merged pull request links has no
\* entry.
C5_OneEntryPerIssue ==
    Rendered =>
        \A i \in Issues :
            LET at == { pos \in EntryPositions :
                          EntryAt(pos).kind = "issue" /\ EntryAt(pos).number = i }
            IN IF LinkingPRs(i) = {} THEN at = {}
               ELSE /\ Cardinality(at) = 1
                    /\ \A pos \in at :
                         /\ EntryAt(pos).title = normalizeTitleForNotes(issueTitle[i])
                         /\ pos[1] = classifyTitle(EntryAt(pos).title)
                         /\ [k \in 1..Len(EntryAt(pos).prs) |-> EntryAt(pos).prs[k].number]
                               = Ascending(LinkingPRs(i))

\* Notes were rendered for an issue that two pull requests link, fetched in
\* descending order of their numbers.
C5_Witness ==
    /\ Rendered
    /\ Len(mergedPRs) = 2
    /\ mergedPRs[1].number > mergedPRs[2].number
    /\ \E i \in Issues : Cardinality(LinkingPRs(i)) = 2

\* C6: in the rendered notes a merged pull request without linked issue (its
\* query returned none) is in the standalone list and has exactly one entry,
\* "#number normalized-title by @author", in the section that title classifies
\* to, and is in no PR list; a pull request with a linked issue is not in the
\* standalone list and has no entry of its own.
C6_StandaloneEntry ==
    Rendered =>
        \A k \in 1..Len(mergedPRs) :
            LET pr == mergedPRs[k]
                at == { pos \in EntryPositions :
                          EntryAt(pos).kind = "pr" /\ EntryAt(pos).number = pr.number }
            IN IF got[pr.number] = {}
               THEN /\ pr \in Range(prsWithoutIssue)
                    /\ Cardinality(at) = 1
                    /\ \A pos \in at :
                         /\ EntryAt(pos).title = normalizeTitleForNotes(pr.title)
                         /\ pos[1] = classifyTitle(EntryAt(pos).title)
                         /\ EntryAt(pos).user = pr.user
                    /\ SectionsOfPR(pr.number)
                          = {classifyTitle(normalizeTitleForNotes(pr.title))}
               ELSE /\ pr \notin Range(prsWithoutIssue)
                    /\ at = {}

\* Notes were rendered with a standalone pull request whose title the
\* normalizer rewrote, next to a pull request that has a linked issue.
C6_Witness ==
    /\ Rendered
    /\ \E k \in 1..Len(mergedPRs) :
         /\ got[mergedPRs[k].number] = {}
         /\ normalizeTitleForNotes(mergedPRs[k].title) # mergedPRs[k].title
         /\ SectionsOfPR(mergedPRs[k].number) = {"Chores"}
    /\ \E k \in 1..Len(mergedPRs) : got[mergedPRs[k].number] # {}

(***************************************************************************)
(* Claims about classification (checked under SpecTags)                    *)
(***************************************************************************)
\* The word with the letter case of its first letter changed.
SwapCase(c) ==
    IF \E f \in CaseForms : f[1] = c THEN (CHOOSE f \in CaseForms : f[1] = c)[2]
    ELSE IF \E f \in CaseForms : f[2] = c THEN (CHOOSE f \in CaseForms : f[2] = c)[1]
    ELSE c

\* The titles that differ from t in the letter case of some of its words.
CaseVariants(t) ==
    { [i \in 1..Len(t) |-> IF i \in S THEN SwapCase(t[i]) ELSE t[i]] :
        S \in SUBSET { i \in 1..Len(t) : t[i] \in AllWords } }

\* C11: classification is case-insensitive: every title that differs from the
\* classified title only in letter case is classified into the same section.
C11_CaseInsensitive ==
    tpc = "classified" => \A t2 \in CaseVariants(title) : classifyTitle(t2) = section

\* "Bug: x" was classified, as "bug: x" is, into Bug Fixes.
C11_Witness ==
    /\ tpc = "classified"
    /\ title = <<"Bug", ":", " ", "x">>
    /\ <<"bug", ":", " ", "x">> \in CaseVariants(title)
    /\ section = "Bug Fixes"

\* Position of the first token c of t, 0 when there is none.
FirstAt(t, c) ==
    IF \E i \in 1..Len(t) : t[i] = c
    THEN CHOOSE i \in 1..Len(t) : t[i] = c /\ \A j \in 1..(i - 1) : t[j] # c
    ELSE 0

\* t is '[A, B...] r': a tag list with a comma inside its brackets.
IsTagList(t) ==
    /\ FirstAt(t, "[") > 0
    /\ FirstAt(t, "[") < FirstAt(t, ",")
    /\ FirstAt(t, ",") < FirstAt(t, "]")

\* '[A] r' for the title '[A, B...] r'.
FirstTagOnly(t) ==
    SubSeq(t, 1, FirstAt(t, ",") - 1) \o SubSeq(t, FirstAt(t, "]"), Len(t))

\* C12: a title whose bracketed tag lists several comma-separated prefixes is
\* classified exactly like the title with the first prefix alone.
C12_FirstTagDecides ==
    (tpc = "classified" /\ IsTagList(title))
        => section = classifyTitle(FirstTagOnly(title))

\* "[bug, Chore] x" was classified into Bug Fixes, not into the section of Chore.
C12_Witness ==
    /\ tpc = "classified"
    /\ title = <<"[", "bug", ",", " ", "Chore", "]", " ", "x">>
    /\ FirstTagOnly(title) = <<"[", "bug", "]", " ", "x">>
    /\ section = "Bug Fixes"
    /\ classifyTitle(<<"[", "Chore", "]", " ", "x">>) = "Chores"

(***************************************************************************)
(* Claims about nextVersion (checked under SpecVersion)                    *)
(***************************************************************************)
\* The digits without leading zeros.
StripZeros(ds) ==
    IF \A i \in 1..Len(ds) : ds[i] = 0 THEN <<0>>
    ELSE SubSeq(ds, CHOOSE i \in 1..Len(ds) : ds[i] # 0 /\ \A j \in 1..(i - 1) : ds[j] = 0,
                Len(ds))

\* The decimal digits of the next integer.
RECURSIVE DecSucc(_)
DecSucc(ds) ==
    IF Len(ds) = 0 THEN <<1>>
    ELSE IF ds[Len(ds)] < 9
    THEN SubSeq(ds, 1, Len(ds) - 1) \o <<ds[Len(ds)] + 1>>
    ELSE DecSucc(SubSeq(ds, 1, Len(ds) - 1)) \o <<0>>

\* Exactly 'v' followed by three dot-separated integers.
IsStrictTag(t) == t.prefix = <<"v">> /\ Len(t.nums) = 3 /\ t.suffix = <<>>

\* The tag of the last release the run found, NoTag when it found none.
LastTag == IF Len(lastRelease) > 0 THEN lastRelease[1].tag_name ELSE NoTag

\* C13: for a last tag vA.B.C the new tag is vA.B.(C+1): MAJOR and MINOR are
\* the same integers and PATCH is greater by exactly one.
C13_PatchPlusOne ==
    (pc = "listBranches" /\ IsStrictTag(LastTag))
        => newTag = MkTag(<<"v">>, << StripZeros(LastTag.nums[1]),
                                      StripZeros(LastTag.nums[2]),
                                      DecSucc(StripZeros(LastTag.nums[3])) >>, <<>>)

\* C14: without last tag, and for every last tag that is not exactly 'v'
\* followed by three dot-separated integers, the new tag is v0.1.0.
C14_DefaultVersion ==
    (pc = "listBranches" /\ ~IsStrictTag(LastTag)) => newTag = V010

(***************************************************************************)
(* Claims about the rendered notes (checked under SpecNotes)               *)
(***************************************************************************)
\* The sections that receive an entry: the section of each issue of the map
\* and of each pull request without linked issue.
SectionsInUse ==
    { classifyTitle(normalizeTitleForNotes(issueMap[i].title)) : i \in DOMAIN issueMap }
        \cup { classifyTitle(normalizeTitleForNotes(prsWithoutIssue[k].title)) :
                 k \in 1..Len(prsWithoutIssue) }

\* Position of section s in the fixed order.
OrderOf(s) == CHOOSE k \in 1..Len(orderedSections) : orderedSections[k] = s

\* C15: the rendered notes hold exactly one sub-heading for each section that
\* received an entry, none for any other section, and the sub-headings follow
\* the fixed section order, whatever the order of the fetched pull requests.
C15_HeadingsInFixedOrder ==
    Rendered =>
        /\ \A s \in SectionNames :
             Cardinality({ k \in 1..Len(notes) : notes[k].heading = s })
                 = IF s \in SectionsInUse THEN 1 ELSE 0
        /\ \A k \in 1..Len(notes) :
             /\ notes[k].heading \in SectionNames
             /\ Len(notes[k].items) > 0
             /\ \A e \in Range(notes[k].items) : e.section = notes[k].heading
        /\ \A j, k \in 1..Len(notes) :
             j < k => OrderOf(notes[j].heading) < OrderOf(notes[k].heading)

\* Two standalone pull requests, the Chores one fetched before the Bug Fixes
\* one, are rendered under Bug Fixes first and Chores second.
C15_Witness ==
    /\ Rendered
    /\ Len(prsWithoutIssue) = 2
    /\ classifyTitle(prsWithoutIssue[1].title) = "Chores"
    /\ classifyTitle(prsWithoutIssue[2].title) = "Bug Fixes"
    /\ [k \in 1..Len(notes) |-> notes[k].heading] = <<"Bug Fixes", "Chores">>

\* C16: in each rendered section the entries, issue entries and standalone
\* pull request entries alike, are in ascending order of their number.
C16_EntriesAscending ==
    Rendered =>
        \A k \in 1..Len(notes) :
            \A i, j \in 1..Len(notes[k].items) :
                i < j => notes[k].items[i].number < notes[k].items[j].number

\* A section holds a standalone pull request before an issue of greater
\* number, although the issue entry was pushed first.
C16_Witness ==
    /\ Rendered
    /\ \E k \in 1..Len(notes) :
         /\ Len(notes[k].items) >= 2
         /\ notes[k].items[1].kind = "pr"
         /\ notes[k].items[2].kind = "issue"

(***************************************************************************)
(* Claims about re-running and failing calls                               *)
(***************************************************************************)
\* C17: a run that completes right after a completed run which created a
\* draft release, nothing else having changed on the platform and no API
\* call having failed, used the same reference release, the same cutoff date
\* and the same merged pull requests as that run and produced the same body.
C17_RerunSame ==
    (pc = "done" /\ runs >= 2 /\ quiet /\ failures = 0 /\ prevMutation.kind = "create")
        => /\ lastRelease = prevRun[1].lastRelease
           /\ since = prevRun[1].since
           /\ Range(mergedPRs) = Range(prevRun[1].mergedPRs)
           /\ notes = prevRun[1].notes

\* The linked-issue query for pull request n failed in this run: the pull
\* request closes issues and the query returned none.
LinkQueryFailed(n) == n \in DOMAIN got /\ got[n] = {} /\ links[n] # {}

\* C18: a step of the link loop never ends the run; a merged pull request
\* whose linked-issue query failed is kept as a pull request without linked
\* issue and rendered as a standalone entry, the pull requests after it are
\* queried too, a run that ends early after it does so for another reason
\* (another failed call, or the TypeError of an unclassifiable title), and a
\* run that completes has written its release.
C18_LinkFailureSwallowed ==
    /\ [][pc = "link" => (pc' \in {"link", "group"} /\ exited' = "no")]_vars
    /\ [](\A k \in 1..Len(mergedPRs) :
            LinkQueryFailed(mergedPRs[k].number) =>
                /\ mergedPRs[k] \in Range(prsWithoutIssue)
                /\ pc # "link" => DOMAIN got = { mergedPRs[j].number : j \in 1..Len(mergedPRs) }
                /\ Rendered =>
                     \E pos \in EntryPositions :
                        /\ EntryAt(pos).kind = "pr"
                        /\ EntryAt(pos).number = mergedPRs[k].number
                /\ pc = "aborted" =>
                     \/ failures > 1
                     \/ PushThrows(Pushes(issueMap, prsWithoutIssue))
                /\ pc = "done" => mutation.kind # "none")

\* The query failed for the first of two merged pull requests, the second was
\* queried and has its issue, and the run has written its release.
C18_Witness ==
    /\ pc = "done"
    /\ Len(mergedPRs) = 2
    /\ LinkQueryFailed(mergedPRs[1].number)
    /\ got[mergedPRs[2].number] # {}
    /\ mutation.kind # "none"
    /\ \E pos \in EntryPositions :
         EntryAt(pos).kind = "pr" /\ EntryAt(pos).number = mergedPRs[1].number

\* The merged pull requests of the release branch, whatever their merge date.
AllMergedOnMaster ==
    SelectSeq(pulls, LAMBDA pr : pr.base = MASTER_BRANCH /\ pr.merged_at # 0)

\* C19: the release listing and the comparison with dev never end the run; a
\* failed listing leaves the run without last release, without cutoff date and
\* with the new tag v0.1.0, and a failed comparison leaves master as the target
\* branch; a run without last release takes master and selects every merged
\* pull request.
C19_OptionalDataFailures ==
    /\ [][(pc = "listReleases" \/ pc = "compare") => (pc' # "aborted" /\ exited' = "no")]_vars
    /\ [][(pc = "listReleases" /\ failures' > failures)
            => (lastRelease' = <<>> /\ since' = 0 /\ newTag' = V010)]_vars
    /\ [][(pc = "compare" /\ failures' > failures)
            => (targetBranch' = MASTER_BRANCH /\ pc' = "pulls")]_vars
    /\ []((Len(lastRelease) = 0 /\ pc \in {"link", "group", "findDraft", "publish", "done"})
            => (targetBranch = MASTER_BRANCH /\ mergedPRs = AllMergedOnMaster))

\* The listing failed although a published release exists: the run completed
\* with the tag v0.1.0 and with a pull request merged before that release.
C19_Witness ==
    /\ pc = "done"
    /\ Len(lastRelease) = 0
    /\ Len(FindLastRelease(startReleases)) > 0
    /\ newTag = V010
    /\ \E k \in 1..Len(mergedPRs) :
         mergedPRs[k].merged_at < FindLastRelease(startReleases)[1].created_at

\* C20: the step in which the lookup of an existing draft fails does not end
\* the run and leaves it without draft; a run without draft that publishes
\* creates a new draft release carrying the tag computed in this run and the
\* notes, in front of the releases that existed.
C20_DraftLookupFailureCreates ==
    /\ [][(pc = "findDraft" /\ failures' > failures)
            => (draftRelease' = <<>> /\ pc' = "publish" /\ exited' = "no")]_vars
    /\ [][(pc = "publish" /\ Len(draftRelease) = 0 /\ pc' = "done")
            => /\ mutation'.kind = "create"
               /\ Len(releases') = Len(releases) + 1
               /\ releases'[1].draft
               /\ releases'[1].tag_name = newTag
               /\ releases'[1].body = notes
               /\ Tail(releases') = releases]_vars

\* The lookup failed in the first run although a draft exists: the run
\* completed and created a second draft with the new tag.
C20_Witness ==
    /\ pc = "done"
    /\ runs = 1
    /\ ~changed
    /\ Len(FindDraftRelease(FirstN(startReleases, DraftsPerPage))) > 0
    /\ Len(draftRelease) = 0
    /\ mutation.kind = "create"
    /\ releases[1].tag_name = newTag
    /\ Cardinality(DraftIds(releases)) = 2

\* C21: a run in progress has exit code "no" and has written nothing; a run
\* that completed has exit code 0 and the release list is the one it started
\* with after exactly one create or update, performed by its last step; a run
\* that aborted has exit code 1 and left the release list as it found it; a
\* failure of listBranches, of pulls.list or of the create/update call aborts.
C21_OneMutationOrNone ==
    /\ []((pc \notin {"done", "aborted"})
            => (exited = "no" /\ mutation = NoMutation /\ releases = startReleases))
    /\ [](pc = "done"
            => /\ exited = "0"
               /\ mutation.kind \in {"create", "update"}
               /\ ~changed =>
                    releases = PublishTo(startReleases, draftRelease, newTag, notes,
                                         clock - 1))
    /\ [](pc = "aborted"
            => /\ exited = "1"
               /\ mutation = NoMutation
               /\ ~changed => releases = startReleases)
    /\ [][((pc = "listBranches" \/ pc = "pulls" \/ pc = "publish") /\ failures' > failures)
            => (pc' = "aborted" /\ exited' = "1" /\ releases' = releases)]_vars
    /\ [][(mutation' # mutation /\ mutation'.kind # "none")
            => (pc = "publish" /\ pc' = "done")]_vars

\* The create/update call failed after the notes were rendered: the run ended
\* with exit code 1 and the release list it started with.
C21_Witness ==
    /\ pc = "aborted"
    /\ exited = "1"
    /\ Len(notes) > 0
    /\ failures = 1
    /\ releases = startReleases
    /\ mutation = NoMutation

\* An API call has been issued: the run is past its first call.
CallIssued == pc \notin {"start", "listReleases"} /\ newTag # NoTag

\* C22: with the token missing, or the repository identifier missing (neither
\* GITHUB_REPOSITORY nor a git remote), the process issues no API call and,
\* once the top level has run, has exited with code 1.
C22_MissingConfigExits ==
    (~env.token \/ (~env.repository /\ ~env.remote))
        => /\ ~CallIssued
           /\ pc = "aborted" => exited = "1"

\* The target branch of the run has been decided.
BranchDecided == pc \in {"pulls", "link", "group", "findDraft", "publish", "done"}

\* C23: the comparison is made exactly when the branch list holds dev and a
\* last release exists; it selects dev exactly when it succeeds with at least
\* one commit; the branch is master before the comparison and is not changed
\* after it, so a decided target is dev only with dev listed, a last release
\* and commits on dev, and is dev in that case when no call failed.
C23_TargetBranch ==
    /\ [][(pc = "listBranches" /\ pc' # "aborted")
            => /\ targetBranch' = MASTER_BRANCH
               /\ pc' = (IF hasDev /\ Len(lastRelease) > 0 THEN "compare" ELSE "pulls")]_vars
    /\ [][pc = "compare"
            => /\ pc' = "pulls"
               /\ (targetBranch' = DEV_BRANCH) <=> (failures' = failures /\ devAhead > 0)
               /\ targetBranch' \in {DEV_BRANCH, MASTER_BRANCH}]_vars
    /\ [][(BranchDecided /\ pc # "done") => targetBranch' = targetBranch]_vars
    /\ [](BranchDecided
            => /\ targetBranch \in {DEV_BRANCH, MASTER_BRANCH}
               /\ targetBranch = DEV_BRANCH
                    => (hasDev /\ Len(lastRelease) > 0 /\ devAhead > 0)
               /\ (failures = 0 /\ hasDev /\ Len(lastRelease) > 0 /\ devAhead > 0)
                    => targetBranch = DEV_BRANCH)

\* A run that completed on dev with the pull request merged into dev.
C23_Witness ==
    /\ pc = "done"
    /\ targetBranch = DEV_BRANCH
    /\ hasDev
    /\ devAhead > 0
    /\ Len(lastRelease) > 0
    /\ Len(mergedPRs) > 0
    /\ \A k \in 1..Len(mergedPRs) : mergedPRs[k].base = DEV_BRANCH

\* The condition under which the run takes a pull request of the platform.
Eligible(pr) ==
    /\ pr.base = targetBranch
    /\ pr.merged_at # 0
    /\ Len(lastRelease) > 0 => pr.merged_at > lastRelease[1].created_at

\* C24: once the pull requests are fetched, those selected are exactly the
\* closed pull requests of the target branch that were merged and, when a last
\* release exists, merged strictly after its creation; every pull request that
\* appears in the notes is one of them.
C24_IncludedPRs ==
    (pc \in {"link", "group", "findDraft", "publish", "done"})
        => /\ \A k \in 1..Len(pulls) :
                (\E j \in 1..Len(mergedPRs) : mergedPRs[j] = pulls[k]) <=> Eligible(pulls[k])
           /\ \A j \in 1..Len(mergedPRs) : \E k \in 1..Len(pulls) : pulls[k] = mergedPRs[j]
           /\ Rendered =>
                \A n \in PRs :
                    SectionsOfPR(n) # {} =>
                        \E k \in 1..Len(pulls) : pulls[k].number = n /\ Eligible(pulls[k])

\* A completed run with a last release that kept one pull request and left
\* out the one merged at the very time the release was created.
C24_Witness ==
    /\ pc = "done"
    /\ Len(lastRelease) > 0
    /\ Len(mergedPRs) = 1
    /\ SectionsOfPR(mergedPRs[1].number) # {}
    /\ \E k \in 1..Len(pulls) :
         /\ pulls[k].merged_at = lastRelease[1].created_at
         /\ pulls[k].base = targetBranch
         /\ SectionsOfPR(pulls[k].number) = {}

\* The closed pull requests of the target branch, in API order.
BaseList == SelectSeq(pulls, LAMBDA pr : pr.base = targetBranch)

\* C25: while getAllPRs runs it holds the pages before the current one, all
\* full; it goes on to the next page only after a full page and stops at the
\* first page that is empty or shorter than the page size; when it returns,
\* `all` is the list of the base branch, each pull request once and in API
\* order, and the last page requested is the first that is not full; and it
\* does return.
C25_GetAllPRs ==
    /\ [](pc = "pulls"
            => /\ (page - 1) * perPage <= Len(BaseList)
               /\ all = FirstN(BaseList, (page - 1) * perPage))
    /\ []((pc = "link" \/ pc = "group")
            => /\ all = BaseList
               /\ page = (Len(BaseList) \div perPage) + 1)
    /\ [][(pc = "pulls" /\ pc' = "pulls")
            => (page' = page + 1 /\ Len(PageOf(BaseList, page, perPage)) = perPage)]_vars
    /\ [][(pc = "pulls" /\ failures' = failures
                /\ Len(PageOf(BaseList, page, perPage)) < perPage)
            => (pc' \in {"link", "group"} /\ page' = page)]_vars
    /\ <>(pc # "pulls")

\* getAllPRs returned a list of exactly two full pages after requesting a
\* third, empty page.
C25_Witness ==
    /\ pc \in {"link", "group"}
    /\ Len(BaseList) = 2 * perPage
    /\ Len(all) = 2 * perPage
    /\ page = 3

\* C26: the step that updates a draft leaves the release list as it was but
\* for the body and the name of that draft: its id, tag, draft flag and
\* creation date stay, its body is the notes and its name is that of its own
\* tag, whatever version this run computed.
C26_UpdateFrame ==
    [][(pc = "publish" /\ pc' = "done" /\ Len(draftRelease) > 0)
        => /\ Len(releases') = Len(releases)
           /\ \A i \in 1..Len(releases) :
                IF releases[i].id = draftRelease[1].id
                THEN /\ releases'[i].id = releases[i].id
                     /\ releases'[i].tag_name = releases[i].tag_name
                     /\ releases'[i].draft = releases[i].draft
                     /\ releases'[i].created_at = releases[i].created_at
                     /\ releases'[i].body = notes
                     /\ releases'[i].name = releases[i].tag_name
                ELSE releases'[i] = releases[i]]_vars

\* A draft was published by the maintainer after the first run; the second
\* run computed a later version and updated the other draft, which kept its
\* own tag as tag and as name.
C26_Witness ==
    /\ pc = "done"
    /\ runs = 2
    /\ ~quiet
    /\ ~changed
    /\ mutation.kind = "update"
    /\ Len(lastRelease) > 0
    /\ \E i \in 1..Len(releases) :
         /\ releases[i].id = mutation.id
         /\ releases[i].draft
         /\ releases[i].tag_name # newTag
         /\ releases[i].name = releases[i].tag_name
         /\ releases[i].body = notes

\* C27: a run that created a draft release gave it a tag that no release
\* present before the creation carries.
C27_FreshTag ==
    (pc = "done" /\ mutation.kind = "create")
        => \A i \in 2..Len(releases) : releases[i].tag_name # releases[1].tag_name

\* C28: the section getSectionFromPRTitle returns for a title is a key of
\* sectionGroups, the push does not throw and the entry is rendered.
C28_SectionsInitialised ==
    tpc # "input" => (section \in sectionGroupsKeys /\ tpc = "rendered")

====
